---------------------------- MODULE Spec2Model ----------------------------
(***************************************************************************)
(* A model of the Blockchain class of src/src/blockchain.js: the chain of  *)
(* blocks, the cached height, the list of issued ownership challenges, and *)
(* the asynchronous operations over them.                                  *)
(*                                                                         *)
(* JavaScript runs one job at a time.  A call of a method runs up to its   *)
(* first `await` as part of the caller's job; the rest of the method is a  *)
(* continuation placed on the microtask queue, which is served first-in    *)
(* first-out.  The model keeps one record per call (its local variables    *)
(* and its position) and the queue of suspended calls.  Callers may start  *)
(* a new call between any two jobs.                                        *)
(*                                                                         *)
(* SHA256 is modelled as an injective function: the digest of a block is   *)
(* the tuple of the fields that JSON.stringify(block) serialises.          *)
(***************************************************************************)
EXTENDS Integers, Sequences, FiniteSets, TLC

(* ------------------------------ bounds --------------------------------- *)

\* calls of initializeChain / addRandomBlock / submitStar made by clients,
\* on top of the initializeChain call made by the constructor
MaxCalls == 2

\* calls of requestMessageOwnershipVerification
MaxRequests == 1

\* calls of changeHash / changePreviousHash
MaxTamper == 1

(* --------------------------- value domains ----------------------------- *)

\* wallet addresses of the clients that submit stars
Addresses == {"addrA", "addrB"}

\* wallet addresses challenges are requested for
Requesters == {"addrA"}

\* star payloads clients submit
Stars == {"star1"}

\* new Date().getTime() (milliseconds) when the Blockchain object is built
Epoch0 == 1000000

\* the amounts of milliseconds the clock advances by, one after the other:
\* to the last second of the five-minute window, then one second past it
TickSteps == <<300000, 1000>>

\* the null of JavaScript in a hash field
Null == <<>>

(* ----------------------------- block.js -------------------------------- *)

\* the data of the genesis block, {data: 'Genesis Block'}; the fields it
\* does not have are empty
GenesisData == [data |-> "Genesis Block", owner |-> "", star |-> ""]

\* the data of a star block, {owner: address, star: star}
StarData(address, star) == [data |-> "", owner |-> address, star |-> star]

\* new BlockClass.Block(data): the body encodes the data, the structural
\* fields are unset
Block(data) ==
    [hash |-> Null, height |-> 0, body |-> <<"hex", data>>, time |-> 0,
     previousBlockHash |-> Null]

\* block.getBData(): decodes the body
getBData(block) == block.body[2]

\* SHA256(JSON.stringify(block)).toString(): a digest of every field of the
\* block, the hash field as it is at that moment included
SHA256(block) ==
    <<"sha256", block.hash, block.height, block.body, block.time,
      block.previousBlockHash>>

\* block.validate(): recomputes the hash over the block with its hash field
\* unset, as it was when the hash was stored, and compares
validate(block) == block.hash = SHA256([block EXCEPT !.hash = Null])

(* ------------------------------- state --------------------------------- *)

VARIABLES
    chain,                  \* this.chain: the sequence of blocks
    height,                 \* this.height: the cached height
    userValidateRequests,   \* this.userValidateRequests: issued challenges
    clock,                  \* new Date().getTime(), in milliseconds
    calls,                  \* one record per call: locals, position, outcome
    microtasks,             \* suspended calls, in the order they resume
    ticks,                  \* how often the clock has advanced
    tamperLog,              \* the tamper calls made: method, height,
                            \* result, length of the chain at the call
    validation,             \* the latest call of validateChain
    query                   \* the latest call of a query method

vars == <<chain, height, userValidateRequests, clock, calls, microtasks,
          ticks, tamperLog, validation, query>>

\* chain[i] of the source, whose arrays start at index 0
At(i) == chain[i + 1]

\* the methods that call _addBlock
AppendOps == {"initializeChain", "addRandomBlock", "submitStar"}

\* the calls of the methods in ops made so far
CallsOf(ops) == {c \in DOMAIN calls : calls[c].op \in ops}

\* a call record before any of its locals is set
NewCall(op) ==
    [op |-> op, pc |-> "done", outcome |-> "",
     address |-> "", message |-> <<>>, star |-> "",
     diff |-> 0, verify_message |-> FALSE, crashed |-> "undefined",
     chainHeight |-> -1, block |-> Block(GenesisData), index |-> -1]

\* a call that has returned: its locals are gone, what remains is what its
\* caller got: a rejection, or the block now at chain[index].  For the
\* record, a submitStar call keeps the time difference it computed and,
\* when it was accepted, the address and the message it was accepted for.
Returned(call, outcome) ==
    IF outcome = "resolved"
    THEN [NewCall(call.op) EXCEPT
             !.outcome = outcome, !.index = call.index, !.diff = call.diff,
             !.address = call.address, !.message = call.message,
             !.verify_message = call.verify_message]
    ELSE [NewCall(call.op) EXCEPT !.outcome = outcome, !.diff = call.diff]

(* ------------------------- time and messages --------------------------- *)

\* new Date().getTime().toString().slice(0,-3): the clock without its last
\* three digits, that is in seconds
EpochSeconds(ms) == ms \div 1000

\* address+":"+seconds+":starRegistry", kept as its colon-separated fields
ChallengeMessage(address, ms) == <<address, EpochSeconds(ms), "starRegistry">>

\* parseInt(message.split(":")[1]): the second field, a number in every
\* message of the model
MessageTime(message) == message[2]

\* a slip: the last second of the window counted as over it
OverFiveMinutesInclusive(diff) == diff >= 5 * 60

\* diff/60 > 5, a division of floating-point numbers: 300/60 is 5 exactly
OverFiveMinutes(diff) == diff > 5 * 60

(* ------------------------- bitcoinjs-message --------------------------- *)

\* the signature a wallet makes of a message with the key of signer
Sign(signer, message) == <<signer, message>>

\* a signature that cannot be decoded (wrong length, bad checksum)
Malformed == <<"malformed">>

\* bitcoinMessage.verify throws on a signature it cannot decode
VerifyThrows(signature) == signature = Malformed

\* bitcoinMessage.verify(message, address, signature)
Verify(message, address, signature) ==
    /\ ~VerifyThrows(signature)
    /\ signature = Sign(address, message)

(* ------------------------------ _addBlock ------------------------------ *)

\* lines 66-69: _addBlock up to its await: getChainHeight() has read
\* this.height, the rest waits on the microtask queue
AddBlockRead(call, block) ==
    [call EXCEPT !.pc = "append", !.chainHeight = height, !.block = block]

\* a slip: the block given the height read, not the one after it
StampedBlockHeightRead(call) ==
    LET b1 == [call.block EXCEPT !.height = call.chainHeight,
                                 !.time = EpochSeconds(clock)]
        b2 == IF call.chainHeight # -1
              THEN [b1 EXCEPT !.previousBlockHash = At(call.chainHeight).hash]
              ELSE b1
    IN  [b2 EXCEPT !.hash = SHA256(b2)]

\* lines 72-84: the block as _addBlock completes it after the await
StampedBlock(call) ==
    LET b1 == [call.block EXCEPT !.height = call.chainHeight + 1,
                                 !.time = EpochSeconds(clock)]
        b2 == IF call.chainHeight # -1
              THEN [b1 EXCEPT !.previousBlockHash = At(call.chainHeight).hash]
              ELSE b1
    IN  [b2 EXCEPT !.hash = SHA256(b2)]

\* the call c is at the head of the microtask queue, at position pc
Resumes(c, pc) ==
    /\ microtasks # <<>>
    /\ c = Head(microtasks)
    /\ calls[c].pc = pc

\* lines 72-93: the continuation of _addBlock; its caller resumes one
\* microtask after resolve(block)
AddBlockWrite ==
    \E c \in DOMAIN calls :
        /\ Resumes(c, "append")
        /\ LET block == StampedBlock(calls[c])
           IN  /\ height' = block.height
               /\ chain' = Append(chain, block)
               /\ calls' = [calls EXCEPT ![c].block = block,
                                         ![c].index = Len(chain),
                                         ![c].pc = "settle"]
        /\ microtasks' = Append(Tail(microtasks), c)
        /\ UNCHANGED <<userValidateRequests, clock, ticks, tamperLog,
                       validation, query>>

\* line 84 throws on a block that cannot be serialized or hashed, and the
\* catch of line 95 rejects the promise of _addBlock.  The payload of a
\* submitStar call is the one thing in a block the class does not build
\* itself.  The caller resumes one microtask later.
AddBlockThrows ==
    \E c \in DOMAIN calls :
        /\ Resumes(c, "append")
        /\ calls[c].op = "submitStar"
        /\ calls' = [calls EXCEPT ![c].pc = "thrown"]
        /\ microtasks' = Append(Tail(microtasks), c)
        /\ UNCHANGED <<chain, height, userValidateRequests, clock, ticks,
                       tamperLog, validation, query>>

\* line 167: the await of a rejected _addBlock throws inside the async
\* executor of line 137, where nothing catches it: neither resolve nor
\* reject of the promise submitStar returned is ever called
SubmitThrown ==
    \E c \in DOMAIN calls :
        /\ Resumes(c, "thrown")
        /\ calls' = [calls EXCEPT ![c] = [NewCall(@.op) EXCEPT !.pc = "unsettled"]]
        /\ microtasks' = Tail(microtasks)
        /\ UNCHANGED <<chain, height, userValidateRequests, clock, ticks,
                       tamperLog, validation, query>>

\* the caller of _addBlock after its await: lines 41, 169 and 284
Settle ==
    \E c \in DOMAIN calls :
        /\ Resumes(c, "settle")
        /\ calls' = [calls EXCEPT ![c] = Returned(@, "resolved")]
        /\ microtasks' = Tail(microtasks)
        /\ UNCHANGED <<chain, height, userValidateRequests, clock, ticks,
                       tamperLog, validation, query>>

(* --------------------------- initializeChain --------------------------- *)

\* lines 37-42, up to the await inside _addBlock
InitializeCall ==
    IF height = -1
    THEN AddBlockRead(NewCall("initializeChain"), Block(GenesisData))
    ELSE [NewCall("initializeChain") EXCEPT !.outcome = "resolved"]

\* initializeChain() called by a client
InitializeChain ==
    /\ Cardinality(CallsOf(AppendOps)) < 1 + MaxCalls
    /\ calls' = Append(calls, InitializeCall)
    /\ microtasks' = IF InitializeCall.pc = "append"
                     THEN Append(microtasks, Len(calls) + 1)
                     ELSE microtasks
    /\ UNCHANGED <<chain, height, userValidateRequests, clock, ticks,
                   tamperLog, validation, query>>

(* ---------------------------- addRandomBlock --------------------------- *)

\* "test"+this.height%3, the remainder taking the sign of the height
TestOwner(h) ==
    CASE h = -1 -> "test-1"
      [] h % 3 = 0 -> "test0"
      [] h % 3 = 1 -> "test1"
      [] h % 3 = 2 -> "test2"

\* Math.random() of line 281: the n-th value the generator returns, the
\* values taken to differ from one another
MathRandom(n) == <<"random", n>>

\* lines 278-287, up to the await inside _addBlock
AddRandomBlock ==
    LET star == MathRandom(Cardinality(CallsOf({"addRandomBlock"})))
    IN  /\ Cardinality(CallsOf(AppendOps)) < 1 + MaxCalls
        /\ calls' = Append(calls,
               AddBlockRead(NewCall("addRandomBlock"),
                            Block(StarData(TestOwner(height), star))))
        /\ microtasks' = Append(microtasks, Len(calls) + 1)
        /\ UNCHANGED <<chain, height, userValidateRequests, clock, ticks,
                       tamperLog, validation, query>>

(* ------------------ requestMessageOwnershipVerification ---------------- *)

\* lines 109-116
RequestMessageOwnershipVerification ==
    \E address \in Requesters :
        /\ Len(userValidateRequests) < MaxRequests
        /\ userValidateRequests' =
               Append(userValidateRequests, ChallengeMessage(address, clock))
        /\ UNCHANGED <<chain, height, clock, calls, microtasks, ticks,
                       tamperLog, validation, query>>

(* ------------------------------ submitStar ----------------------------- *)

\* the rejections of submitStar, lines 159 and 162
OverMsg == "Over 5 minutes"
NotValidatedMsg ==
    "User message not validated. Please request user validation first"

\* e.message of the error bitcoinMessage.verify throws
CrashMsg == "Invalid signature length"

\* a slip: a challenge looked up by its address alone
IncludesAddress(message) ==
    \E i \in DOMAIN userValidateRequests :
        userValidateRequests[i][1] = message[1]

\* userValidateRequests.includes(message)
Includes(message) ==
    \E i \in DOMAIN userValidateRequests : userValidateRequests[i] = message

\* lines 140-155: the locals of submitStar once verify has been called
SubmitLocals(address, message, signature, star) ==
    [NewCall("submitStar") EXCEPT
        !.pc = "verify",
        !.address = address, !.message = message, !.star = star,
        !.diff = EpochSeconds(clock) - MessageTime(message),
        !.verify_message = Verify(message, address, signature),
        !.crashed = IF VerifyThrows(signature) THEN CrashMsg ELSE "undefined"]

\* a slip: the challenge looked up before the time is checked
SubmitDecisionChallengeFirst(call) ==
    IF ~Includes(call.message)
    THEN Returned(call, NotValidatedMsg)
    ELSE IF OverFiveMinutes(call.diff)
    THEN Returned(call, OverMsg)
    ELSE IF call.verify_message
    THEN AddBlockRead(call, Block(StarData(call.address, call.star)))
    ELSE Returned(call, call.crashed)

\* a slip: the result of the signature check not looked at
SubmitDecisionUnverified(call) ==
    IF OverFiveMinutes(call.diff)
    THEN Returned(call, OverMsg)
    ELSE IF ~Includes(call.message)
    THEN Returned(call, NotValidatedMsg)
    ELSE AddBlockRead(call, Block(StarData(call.address, call.star)))

\* a slip: the block handed to _addBlock before the signature is looked at
SubmitDecisionAppendsFirst(call) ==
    IF OverFiveMinutes(call.diff)
    THEN Returned(call, OverMsg)
    ELSE IF ~Includes(call.message)
    THEN Returned(call, NotValidatedMsg)
    ELSE IF call.verify_message
    THEN AddBlockRead(call, Block(StarData(call.address, call.star)))
    ELSE [AddBlockRead(call, Block(StarData(call.address, call.star)))
             EXCEPT !.outcome = call.crashed]

\* lines 158-173: the decision of submitStar, up to the await inside
\* _addBlock when the star is accepted
SubmitDecision(call) ==
    IF OverFiveMinutes(call.diff)
    THEN Returned(call, OverMsg)
    ELSE IF ~Includes(call.message)
    THEN Returned(call, NotValidatedMsg)
    ELSE IF call.verify_message
    THEN AddBlockRead(call, Block(StarData(call.address, call.star)))
    ELSE Returned(call, call.crashed)

\* the messages a client may present: the challenges issued so far, and a
\* string of the same shape made up by the client
Presentable(address) ==
    {userValidateRequests[i] : i \in DOMAIN userValidateRequests}
        \cup {<<address, EpochSeconds(Epoch0), "starRegistry">>}

\* the signatures a client may present with a message: made with the key
\* of either wallet, or undecodable
Signatures(message) == {Sign(a, message) : a \in Addresses} \cup {Malformed}

\* submitStar(address, message, signature, star) called by a client.  When
\* verify throws, the catch block runs at once and the method decides
\* without suspending; otherwise it suspends at the await of line 150.
SubmitStar ==
    \E address \in Addresses, star \in Stars :
    \E message \in Presentable(address) :
    \E signature \in Signatures(message) :
        LET call == SubmitLocals(address, message, signature, star)
            c == Len(calls) + 1
        IN  /\ Cardinality(CallsOf(AppendOps)) < 1 + MaxCalls
            /\ IF VerifyThrows(signature)
               THEN /\ calls' = Append(calls, SubmitDecision(call))
                    /\ microtasks' =
                           IF SubmitDecision(call).pc = "append"
                           THEN Append(microtasks, c) ELSE microtasks
               ELSE /\ calls' = Append(calls, call)
                    /\ microtasks' = Append(microtasks, c)
            /\ UNCHANGED <<chain, height, userValidateRequests, clock, ticks,
                           tamperLog, validation, query>>

\* a slip: the challenge of an accepted submission taken off the list
SubmitVerifiedConsumes ==
    \E c \in DOMAIN calls :
        /\ Resumes(c, "verify")
        /\ calls' = [calls EXCEPT ![c] = SubmitDecision(@)]
        /\ microtasks' = IF SubmitDecision(calls[c]).pc = "append"
                         THEN Append(Tail(microtasks), c)
                         ELSE Tail(microtasks)
        /\ userValidateRequests' =
               IF SubmitDecision(calls[c]).pc = "append"
               THEN SelectSeq(userValidateRequests,
                              LAMBDA m : m # calls[c].message)
               ELSE userValidateRequests
        /\ UNCHANGED <<chain, height, clock, ticks, tamperLog, validation,
                       query>>

\* submitStar resumed after the await of line 150
SubmitVerified ==
    \E c \in DOMAIN calls :
        /\ Resumes(c, "verify")
        /\ calls' = [calls EXCEPT ![c] = SubmitDecision(@)]
        /\ microtasks' = IF SubmitDecision(calls[c]).pc = "append"
                         THEN Append(Tail(microtasks), c)
                         ELSE Tail(microtasks)
        /\ UNCHANGED <<chain, height, userValidateRequests, clock, ticks,
                       tamperLog, validation, query>>

(* ----------------------------- validateChain --------------------------- *)

HashFault(h) == <<"Different Hash on block height ", h>>
LinkFault(h) == <<"previousBlockHash not matching on block height ", h>>

\* lines 247-252: item.validate() of every block but the first
ValidatePromises == [i \in 1 .. Len(chain) - 1 |-> validate(At(i))]

\* lines 255-262: the faults of data[i], i counted from 0
FaultsAt(data, i) ==
    (IF ~data[i + 1] THEN <<HashFault(i + 1)>> ELSE <<>>)
        \o (IF At(i + 1).height # 0
               /\ At(i + 1).previousBlockHash # At(i).hash
            THEN <<LinkFault(i + 1)>> ELSE <<>>)

\* lines 255-262: the errorLog of data[0 .. n-1]
RECURSIVE ErrorLog(_, _)
ErrorLog(data, n) ==
    IF n = 0 THEN <<>>
    ELSE ErrorLog(data, n - 1) \o FaultsAt(data, n - 1)

\* the microtask queue entry of the validateChain call
ValidationTask == 0

\* no call of validateChain has been made yet
NoValidation ==
    [pc |-> "idle", data |-> <<>>, errorLog |-> <<>>, tampersSeen |-> 0]

\* validateChain() called by a client, once the call before it has
\* returned: lines 243-254.  Promise.all of an empty array is resolved at
\* once; otherwise it is resolved by the microtask that takes the last
\* validate() result.
ValidateChain ==
    /\ validation.pc \in {"idle", "done"}
    /\ validation' =
           [pc |-> IF Len(chain) <= 1 THEN "then" ELSE "all",
            data |-> ValidatePromises, errorLog |-> <<>>,
            tampersSeen |-> Len(tamperLog)]
    /\ microtasks' = Append(microtasks, ValidationTask)
    /\ UNCHANGED <<chain, height, userValidateRequests, clock, calls, ticks,
                   tamperLog, query>>

\* Promise.all resolves: the callback of line 254 is queued
ValidateAll ==
    /\ microtasks # <<>>
    /\ Head(microtasks) = ValidationTask
    /\ validation.pc = "all"
    /\ validation' = [validation EXCEPT !.pc = "then"]
    /\ microtasks' = Append(Tail(microtasks), ValidationTask)
    /\ UNCHANGED <<chain, height, userValidateRequests, clock, calls, ticks,
                   tamperLog, query>>

\* lines 254-265: the callback, which reads the chain as it is by now
ValidateThen ==
    /\ microtasks # <<>>
    /\ Head(microtasks) = ValidationTask
    /\ validation.pc = "then"
    /\ validation' =
           [validation EXCEPT
               !.pc = "done",
               !.errorLog = ErrorLog(validation.data, Len(validation.data))]
    /\ microtasks' = Tail(microtasks)
    /\ UNCHANGED <<chain, height, userValidateRequests, clock, calls, ticks,
                   tamperLog, query>>

(* --------------------- changeHash, changePreviousHash ------------------ *)

\* a slip: the test of the height against 0 left out
TamperedAnyHeight(h, field) ==
    IF h < Len(chain)
    THEN LET block == At(h)
         IN  [chain EXCEPT ![h + 1] =
                 IF field = "hash"
                 THEN [block EXCEPT !.hash = SHA256(block)]
                 ELSE [block EXCEPT !.previousBlockHash = SHA256(block)]]
    ELSE chain

\* lines 313-326 and 292-305: the chain after the call, field being the
\* field the method overwrites
Tampered(h, field) ==
    IF h # 0 /\ h < Len(chain)
    THEN LET block == At(h)
         IN  [chain EXCEPT ![h + 1] =
                 IF field = "hash"
                 THEN [block EXCEPT !.hash = SHA256(block)]
                 ELSE [block EXCEPT !.previousBlockHash = SHA256(block)]]
    ELSE chain

\* lines 313-326 and 292-305: what the call resolves with: "Not a block",
\* null, or the chain
TamperResult(h) ==
    IF h = 0 THEN "Not a block"
    ELSE IF h < Len(chain) THEN "chain"
    ELSE "null"

\* changeHash(height) called by a client, for a height with or without a
\* block
ChangeHash ==
    \E h \in 0 .. Len(chain) :
        /\ Len(tamperLog) < MaxTamper
        /\ chain' = Tampered(h, "hash")
        /\ tamperLog' =
               Append(tamperLog,
                      <<"changeHash", h, TamperResult(h), Len(chain)>>)
        /\ UNCHANGED <<height, userValidateRequests, clock, calls,
                       microtasks, ticks, validation, query>>

\* changePreviousHash(height) called by a client
ChangePreviousHash ==
    \E h \in 0 .. Len(chain) :
        /\ Len(tamperLog) < MaxTamper
        /\ chain' = Tampered(h, "previousBlockHash")
        /\ tamperLog' =
               Append(tamperLog,
                      <<"changePreviousHash", h, TamperResult(h), Len(chain)>>)
        /\ UNCHANGED <<height, userValidateRequests, clock, calls,
                       microtasks, ticks, validation, query>>

(* ------------------------------- queries ------------------------------- *)

\* the microtask queue entry of the getStarsByWalletAddress call
QueryTask == -1

\* no query has been made yet
NoQuery ==
    [op |-> "", pc |-> "idle", arg |-> <<>>, temp |-> <<>>, result |-> <<>>]

\* a query that returns within the call: what it was called with and what
\* it resolved with
Answered(op, arg, result) ==
    [op |-> op, pc |-> "done", arg |-> arg, temp |-> <<>>, result |-> result]

\* array.filter(test)[0], as a sequence: the first match, or nothing
\* (undefined)
First(matches) == IF matches = <<>> THEN <<>> ELSE <<matches[1]>>

\* lines 47-51: getChainHeight() called by a client
GetChainHeight ==
    /\ query.pc \in {"idle", "done"}
    /\ query' = Answered("getChainHeight", <<>>, <<height>>)
    /\ UNCHANGED <<chain, height, userValidateRequests, clock, calls,
                   microtasks, ticks, tamperLog, validation>>

\* the hashes a client may ask for: those of the blocks, and one of no block
KnownHashes == {chain[i].hash : i \in DOMAIN chain} \cup {<<"sha256">>}

\* lines 183-188: getBlockByHash(hash) called by a client
GetBlockByHash ==
    \E hash \in KnownHashes :
        /\ query.pc \in {"idle", "done"}
        /\ query' = Answered("getBlockByHash", <<hash>>,
                             First(SelectSeq(chain, LAMBDA x : x.hash = hash)))
        /\ UNCHANGED <<chain, height, userValidateRequests, clock, calls,
                       microtasks, ticks, tamperLog, validation>>

\* a slip: the block taken out of the chain it is looked up in
GetBlockByHeightTakes ==
    \E h \in 0 .. Len(chain) :
        /\ query.pc \in {"idle", "done"}
        /\ query' = Answered("getBlockByHeight", <<h>>,
                             First(SelectSeq(chain, LAMBDA p : p.height = h)))
        /\ chain' = SelectSeq(chain, LAMBDA p : p.height # h)
        /\ UNCHANGED <<height, userValidateRequests, clock, calls,
                       microtasks, ticks, tamperLog, validation>>

\* lines 195-205: getBlockByHeight(height) called by a client; the answer
\* is the block, or nothing (null)
GetBlockByHeight ==
    \E h \in 0 .. Len(chain) :
        /\ query.pc \in {"idle", "done"}
        /\ query' = Answered("getBlockByHeight", <<h>>,
                             First(SelectSeq(chain, LAMBDA p : p.height = h)))
        /\ UNCHANGED <<chain, height, userValidateRequests, clock, calls,
                       microtasks, ticks, tamperLog, validation>>

\* the addresses a client may ask the stars of: the owners of the blocks
\* after the first, and the wallet addresses.  An address is a string, and
\* no string equals the owner field a genesis payload does not have.
QueryAddresses ==
    ({getBData(At(i)).owner : i \in 1 .. Len(chain) - 1} \cup Addresses)
        \ {GenesisData.owner}

\* lines 218-223: item.getBData() of every block but the first
DecodePromises == [i \in 1 .. Len(chain) - 1 |-> getBData(At(i))]

\* getStarsByWalletAddress(address) called by a client: lines 213-225.
\* Promise.all of an empty array is resolved at once; otherwise it is
\* resolved by the microtask that takes the last decoded payload.
GetStarsByWalletAddress ==
    \E address \in QueryAddresses :
        /\ query.pc \in {"idle", "done"}
        /\ query' = [op |-> "getStarsByWalletAddress",
                     pc |-> IF Len(chain) <= 1 THEN "then" ELSE "all",
                     arg |-> <<address>>, temp |-> DecodePromises,
                     result |-> <<>>]
        /\ microtasks' = Append(microtasks, QueryTask)
        /\ UNCHANGED <<chain, height, userValidateRequests, clock, calls,
                       ticks, tamperLog, validation>>

\* Promise.all resolves: the callback of line 225 is queued
GetStarsAll ==
    /\ microtasks # <<>>
    /\ Head(microtasks) = QueryTask
    /\ query.pc = "all"
    /\ query' = [query EXCEPT !.pc = "then"]
    /\ microtasks' = Append(Tail(microtasks), QueryTask)
    /\ UNCHANGED <<chain, height, userValidateRequests, clock, calls,
                   ticks, tamperLog, validation>>

\* a slip: the first payload of the owner taken for all of them
OwnedByFirst(data, address) ==
    First(SelectSeq(data, LAMBDA item : item.owner = address))

\* lines 226-230: the payloads whose owner is the address, in their order
OwnedBy(data, address) ==
    SelectSeq(data, LAMBDA item : item.owner = address)

\* lines 225-233: the callback, which keeps the payloads of the owner
GetStarsThen ==
    /\ microtasks # <<>>
    /\ Head(microtasks) = QueryTask
    /\ query.pc = "then"
    /\ query' =
           [query EXCEPT
               !.pc = "done",
               !.result = OwnedBy(query.temp, query.arg[1])]
    /\ microtasks' = Tail(microtasks)
    /\ UNCHANGED <<chain, height, userValidateRequests, clock, calls,
                   ticks, tamperLog, validation>>

(* -------------------------------- clock -------------------------------- *)

\* time passes.  No await of the class waits on a timer or on I/O (lines
\* 69 and 150 await values that are there at once), so a call runs from its
\* start to its return within one drain of the microtask queue: the clock
\* may pass to the next second while calls are suspended, a step of minutes
\* comes between two drains.
Tick ==
    /\ ticks < Len(TickSteps)
    /\ TickSteps[ticks + 1] > 1000 => microtasks = <<>>
    /\ clock' = clock + TickSteps[ticks + 1]
    /\ ticks' = ticks + 1
    /\ UNCHANGED <<chain, height, userValidateRequests, calls,
                   microtasks, tamperLog, validation, query>>

(* ---------------------------- specification ---------------------------- *)

\* lines 25-30: the state when `new Blockchain()` returns: initializeChain
\* has run up to the await inside _addBlock
Init ==
    /\ chain = <<>>
    /\ height = -1
    /\ userValidateRequests = <<>>
    /\ clock = Epoch0
    /\ calls = <<[NewCall("initializeChain") EXCEPT !.pc = "append"]>>
    /\ microtasks = <<1>>
    /\ ticks = 0
    /\ tamperLog = <<>>
    /\ validation = NoValidation
    /\ query = NoQuery

\* every operation of the class
Next ==
    \/ AddBlockWrite
    \/ AddBlockThrows
    \/ SubmitThrown
    \/ Settle
    \/ InitializeChain
    \/ AddRandomBlock
    \/ RequestMessageOwnershipVerification
    \/ SubmitStar
    \/ SubmitVerified
    \/ ValidateChain
    \/ ValidateAll
    \/ ValidateThen
    \/ ChangeHash
    \/ ChangePreviousHash
    \/ GetChainHeight
    \/ GetBlockByHash
    \/ GetBlockByHeight
    \/ GetStarsByWalletAddress
    \/ GetStarsAll
    \/ GetStarsThen
    \/ Tick

Spec == Init /\ [][Next]_vars

\* the appends without ownership proof, the tamper helpers and validation
NextChain ==
    \/ AddBlockWrite
    \/ Settle
    \/ InitializeChain
    \/ AddRandomBlock
    \/ ValidateChain
    \/ ValidateAll
    \/ ValidateThen
    \/ ChangeHash
    \/ ChangePreviousHash

SpecChain == Init /\ [][NextChain]_vars

\* the ownership workflow next to the appends without ownership proof, as
\* time passes
NextProof ==
    \/ AddBlockWrite
    \/ Settle
    \/ InitializeChain
    \/ AddRandomBlock
    \/ RequestMessageOwnershipVerification
    \/ SubmitStar
    \/ SubmitVerified
    \/ Tick

SpecProof == Init /\ [][NextProof]_vars

\* the queries and validation next to the appends and the challenges
NextQuery ==
    \/ AddBlockWrite
    \/ Settle
    \/ InitializeChain
    \/ AddRandomBlock
    \/ RequestMessageOwnershipVerification
    \/ ValidateChain
    \/ ValidateAll
    \/ ValidateThen
    \/ GetChainHeight
    \/ GetBlockByHash
    \/ GetBlockByHeight
    \/ GetStarsByWalletAddress
    \/ GetStarsAll
    \/ GetStarsThen

SpecQuery == Init /\ [][NextQuery]_vars

\* the steps the microtask queue is drained by
Drain ==
    \/ AddBlockWrite
    \/ AddBlockThrows
    \/ SubmitThrown
    \/ Settle
    \/ SubmitVerified

\* the ownership workflow with appends that may fail
NextSettle ==
    \/ Drain
    \/ RequestMessageOwnershipVerification
    \/ SubmitStar

\* the event loop runs a queued microtask as long as there is one
SpecSettle == Init /\ [][NextSettle]_vars /\ WF_vars(Drain)

(* ------------------------------- claims -------------------------------- *)

\* the calls that have read the height and not yet pushed their block
InFlight == {c \in DOMAIN calls : calls[c].pc = "append"}

\* C1: at most one call of the append primitive is between its read of
\* the height and its push of the new block.
AtMostOneAppendInFlight == Cardinality(InFlight) <= 1

\* C2: the block at index i of the chain has height i, so that no two
\* blocks share a height.
HeightMonotonicity ==
    \A i \in 0 .. Len(chain) - 1 : At(i).height = i

\* C3: as long as no tamper operation was called, every block after the
\* first holds the hash of the block before it.
LinkInvariant ==
    tamperLog = <<>> =>
        \A i \in 1 .. Len(chain) - 1 :
            At(i).previousBlockHash = At(i - 1).hash

\* C4: when no tamper operation was called, validateChain() returns an
\* empty list of faults.
ValidationSoundness ==
    (validation.pc = "done" /\ tamperLog = <<>>) => validation.errorLog = <<>>

\* x occurs in the sequence seq
Occurs(x, seq) == \E i \in DOMAIN seq : seq[i] = x

\* validateChain() was called after changeHash(h), the one tamper call
\* made, which found a block h other than the first in a chain of n
\* blocks, and has returned
ValidatedAfterChangeHash(h, n) ==
    /\ validation.pc = "done"
    /\ tamperLog = << <<"changeHash", h, "chain", n>> >>
    /\ validation.tampersSeen = 1

\* C5: after changeHash(h), validateChain() reports the hash of block h
\* and, unless h was the last block, the link of block h + 1.
ValidationCompleteness ==
    \A h \in 0 .. Len(chain), n \in 0 .. Len(chain) :
        ValidatedAfterChangeHash(h, n) =>
            /\ Occurs(HashFault(h), validation.errorLog)
            /\ h < n - 1 => Occurs(LinkFault(h + 1), validation.errorLog)

(* ----------------------- claims about submitStar ----------------------- *)

\* the calls of submitStar
Submissions == CallsOf({"submitStar"})

\* the current epoch seconds minus the timestamp embedded in the message
Elapsed(message) == (clock \div 1000) - message[2]

\* the submitStar call with record d was rejected with this reason
Rejected(d, reason) == d.pc = "done" /\ d.outcome = reason

\* the outcome is a rejection: the call has returned, and not with a block
IsRejection(outcome) == outcome \notin {"", "resolved"}

\* the decision d is the one the order of the rules prescribes for a
\* submission with this elapsed time, with the message pending or not and
\* the signature verified or not
FollowsOrder(d, elapsed, pending, verified) ==
    IF elapsed > 300 THEN Rejected(d, OverMsg)
    ELSE IF ~pending THEN Rejected(d, NotValidatedMsg)
    ELSE IF ~verified
    THEN /\ d.pc = "done"
         /\ IsRejection(d.outcome)
         /\ d.outcome \notin {OverMsg, NotValidatedMsg}
    ELSE d.pc = "append" /\ d.outcome = ""

\* every submission a client may make in this state is decided in the
\* order of the rules, were it decided in this state
DecidedInOrderNow ==
    \A address \in Addresses, star \in Stars :
    \A message \in Presentable(address) :
    \A signature \in Signatures(message) :
        FollowsOrder(
            SubmitDecision(SubmitLocals(address, message, signature, star)),
            Elapsed(message),
            Occurs(message, userValidateRequests),
            signature = Sign(address, message))

\* a suspended submission that resumes is decided in the order of the
\* rules, on the elapsed time it computed when called and the challenges
\* pending when it resumes
DecidedInOrderOnResume ==
    \A c \in Submissions :
        (calls[c].pc = "verify" /\ calls'[c] # calls[c]) =>
            FollowsOrder(calls'[c], calls[c].diff,
                         Occurs(calls[c].message, userValidateRequests),
                         calls[c].verify_message)

\* an accepted submission appends one block, which holds the address and
\* the star submitted
AcceptedAppends ==
    \A c \in Submissions :
        (calls[c].pc = "append" /\ calls'[c] # calls[c]) =>
            /\ Len(chain') = Len(chain) + 1
            /\ getBData(chain'[Len(chain')]) =
                   StarData(calls[c].address, calls[c].star)

NeverIssuedUnrecognized ==
    \A address \in Addresses, star \in Stars :
    \A message \in Presentable(address) :
    \A signature \in Signatures(message) :
        ~Occurs(message, userValidateRequests) =>
            Rejected(
                SubmitDecision(SubmitLocals(address, message, signature, star)),
                NotValidatedMsg)

\* the submitStar call with record d was rejected: as expired when the
\* elapsed time is over 300 seconds, as an unrecognized challenge otherwise
RejectedUnissued(d, elapsed) ==
    Rejected(d, IF elapsed > 300 THEN OverMsg ELSE NotValidatedMsg)

\* C8 as amended: a message that was never issued is always rejected,
\* whatever its signature: as expired when its elapsed time is over 300
\* seconds, as an unrecognized challenge otherwise.
NeverIssuedRejected ==
    /\ [](\A address \in Addresses, star \in Stars :
          \A message \in Presentable(address) :
          \A signature \in Signatures(message) :
              ~Occurs(message, userValidateRequests) =>
                  RejectedUnissued(
                      SubmitDecision(
                          SubmitLocals(address, message, signature, star)),
                      Elapsed(message)))
    /\ [][\A c \in Submissions :
              (/\ calls[c].pc = "verify"
               /\ calls'[c] # calls[c]
               /\ ~Occurs(calls[c].message, userValidateRequests)) =>
                  RejectedUnissued(calls'[c], calls[c].diff)]_vars

\* C8 happens: no challenge was ever issued, and one submission was
\* rejected as an unrecognized challenge, another as expired
NeverIssuedRejectedWitness ==
    /\ userValidateRequests = <<>>
    /\ \E c, d \in Submissions :
           /\ calls[c].outcome = NotValidatedMsg
           /\ calls[d].outcome = OverMsg

\* the call c pushed the block at index i of the chain
Pushed(c, i) == calls[c].index = i

\* the call c is a submitStar call that passed the timing, the pending
\* challenge and the signature check, for the owner of the block at i
PassedChecks(c, i) ==
    /\ calls[c].op = "submitStar"
    /\ calls[c].diff <= 300
    /\ Occurs(calls[c].message, userValidateRequests)
    /\ calls[c].verify_message
    /\ getBData(At(i)).owner = calls[c].address

\* C9 as stated: every block after the first was appended by a submitStar
\* call that passed the timing, the pending challenge and the signature
\* check.
OnlyGenesisBypasses ==
    \A i \in 1 .. Len(chain) - 1 :
        \E c \in DOMAIN calls : Pushed(c, i) /\ PassedChecks(c, i)

\* C9 as amended: every block was appended by initializeChain, by the test
\* helper addRandomBlock, or by a submitStar call that passed the timing,
\* the pending challenge and the signature check.
OnlyBootstrapAndTestHelperBypass ==
    \A i \in 0 .. Len(chain) - 1 :
        \E c \in DOMAIN calls :
            /\ Pushed(c, i)
            /\ \/ calls[c].op \in {"initializeChain", "addRandomBlock"}
               \/ PassedChecks(c, i)

\* C9 happens: the chain holds a block of an accepted submission and a
\* block of addRandomBlock
OnlyBootstrapAndTestHelperBypassWitness ==
    \E c, d \in DOMAIN calls :
        /\ calls[c].op = "submitStar" /\ calls[c].index > 0
        /\ calls[c].outcome = "resolved"
        /\ calls[d].op = "addRandomBlock" /\ calls[d].index > 0

\* C10: a step of a submission that is rejected leaves the chain, the
\* height and the issued challenges as they were.
RejectionLeavesLedger ==
    [][\A c \in DOMAIN calls' :
           (/\ calls'[c].op = "submitStar"
            /\ IsRejection(calls'[c].outcome)
            /\ (c \in DOMAIN calls => calls'[c] # calls[c])) =>
               UNCHANGED <<chain, height, userValidateRequests>>]_vars

\* C10 happens: a challenge is pending, the chain holds the genesis block,
\* and submissions were rejected for an invalid signature and as expired
RejectionLeavesLedgerWitness ==
    /\ userValidateRequests # <<>>
    /\ chain # <<>>
    /\ \E c, d \in Submissions :
           /\ calls[c].outcome = "undefined"
           /\ calls[d].outcome = OverMsg

(* ------------------------ claims about the chain ----------------------- *)

\* the indices of the chain that hold a genesis block
GenesisBlocks ==
    {i \in 0 .. Len(chain) - 1 : getBData(At(i)) = GenesisData}

\* C11: whatever calls of initializeChain() were made, and however they
\* interleave with one another and with other appends, the chain holds at
\* most one genesis block, and holds exactly one once a call has returned.
InitializeIdempotent ==
    /\ Cardinality(GenesisBlocks) <= 1
    /\ (\E c \in CallsOf({"initializeChain"}) :
            calls[c].outcome = "resolved") => Cardinality(GenesisBlocks) = 1

\* the call of initializeChain() the constructor makes (line 29)
ConstructorCall == 1

\* the chain is the genesis block and nothing else
ExactlyGenesis ==
    /\ Len(chain) = 1
    /\ getBData(At(0)) = GenesisData
    /\ At(0).height = 0
    /\ At(0).previousBlockHash = Null
    /\ validate(At(0))

\* the ledger is freshly initialized: the call of the constructor has
\* returned, and no client has called an append or a tamper operation
FreshlyInitialized ==
    /\ Len(calls) = 1
    /\ calls[ConstructorCall].outcome = "resolved"
    /\ tamperLog = <<>>

StarsAnswered == query.op = "getStarsByWalletAddress" /\ query.pc = "done"

\* the blocks among the first n of the chain that are no genesis block and
\* whose owner is the address, in chain order
OwnedBlocks(address, n) ==
    SelectSeq(SubSeq(chain, 1, n),
              LAMBDA b : /\ getBData(b) # GenesisData
                         /\ getBData(b).owner = address)

\* the decoded payloads of these blocks
OwnedPayloads(address, n) ==
    [i \in 1 .. Len(OwnedBlocks(address, n)) |->
        getBData(OwnedBlocks(address, n)[i])]

\* C13: getStarsByWalletAddress(a) returns the decoded payloads of the
\* blocks that are no genesis block and whose owner is a, as the chain was
\* when it was called, in chain order, none skipped and no other included;
\* for an address that owns no block it returns the empty sequence.
OwnerFilterCorrect ==
    StarsAnswered =>
        query.result = OwnedPayloads(query.arg[1], Len(query.temp) + 1)

\* C13 happens: the same owner holds two blocks with different payloads,
\* returned in chain order, or the chain holds blocks of two owners and
\* the query returned the block of one of them
OwnerFilterCorrectWitness ==
    /\ StarsAnswered
    /\ Len(query.temp) = 2
    /\ \/ Len(query.result) = 2 /\ query.result[1] # query.result[2]
       \/ Len(query.result) = 1 /\ query.result[1] = query.temp[2]

\* C14: a step of validateChain() or of a query (getBlockByHash,
\* getBlockByHeight, getStarsByWalletAddress, getChainHeight) leaves the
\* chain, the height and the issued challenges as they were.
QueriesNeverMutate ==
    [][(validation' # validation \/ query' # query) =>
           UNCHANGED <<chain, height, userValidateRequests>>]_vars

\* C14 happens: with two blocks in the chain and a challenge issued,
\* validateChain() has returned and a block was looked up and found
QueriesNeverMutateWitness ==
    /\ Len(chain) > 1
    /\ userValidateRequests # <<>>
    /\ validation.pc = "done"
    /\ Len(validation.data) > 0
    /\ query.pc = "done"
    /\ query.op \in {"getBlockByHash", "getBlockByHeight"}
    /\ query.result # <<>>

(* --------------------- claims about the tamper helpers ----------------- *)

\* this step is a call of a tamper operation for the height h, which
\* the call answers with result
TamperCall(h, result) ==
    /\ Len(tamperLog') = Len(tamperLog) + 1
    /\ tamperLog'[Len(tamperLog')][2] = h
    /\ tamperLog'[Len(tamperLog')][3] = result

\* the ledger is left as it was
LedgerUnchanged == UNCHANGED <<chain, height, userValidateRequests>>

\* C15: changeHash(0) and changePreviousHash(0) answer "Not a block" and
\* change nothing; a call for a height without a block answers null and
\* changes nothing; no step changes the block at index 0.
TamperSparesGenesis ==
    [][/\ \A h \in 0 .. Len(chain), result \in {"Not a block", "chain", "null"} :
              TamperCall(h, result) =>
                  /\ h = 0 => (result = "Not a block" /\ LedgerUnchanged)
                  /\ (h # 0 /\ h >= Len(chain)) =>
                         (result = "null" /\ LedgerUnchanged)
       /\ chain # <<>> => chain'[1] = chain[1]]_vars

\* C15 happens: with blocks after the genesis block in the chain, a tamper
\* operation was called for height 0
TamperSparesGenesisWitness ==
    /\ Len(chain) > 1
    /\ \E i \in DOMAIN tamperLog :
           /\ tamperLog[i][2] = 0
           /\ tamperLog[i][3] = "Not a block"
           /\ tamperLog[i][4] > 1

(* ------------------------ claims about the height ---------------------- *)

\* C16: in every state between two steps the cached height is the length
\* of the chain minus one.
HeightIsLengthMinusOne == height = Len(chain) - 1

(* ----------------------- claims about the outcome ---------------------- *)

\* C17: every call of submitStar eventually reports an outcome to its
\* caller, the appended block or a rejection, also when _addBlock fails.
SubmitEventuallyReports ==
    \A c \in 1 .. 1 + MaxCalls :
        (c \in DOMAIN calls /\ calls[c].op = "submitStar")
            ~> (c \in DOMAIN calls /\ calls[c].pc = "done")

(* ---------------------- claims about the challenges -------------------- *)

\* the submissions that were accepted and have returned their block
AcceptedSubmissions == {c \in Submissions : calls[c].outcome = "resolved"}

\* this step is a call of requestMessageOwnershipVerification
RequestCall == Len(userValidateRequests') = Len(userValidateRequests) + 1

\* C18: no step takes a challenge off the list or changes one; a call of
\* requestMessageOwnershipVerification adds the string it returns, made of
\* the address and the current second; and the message of a submission
\* accepted once is accepted again when submitted with a valid signature
\* within 300 seconds of its timestamp.
ChallengesOnlyGrow ==
    /\ [][/\ Len(userValidateRequests') >= Len(userValidateRequests)
          /\ SubSeq(userValidateRequests', 1, Len(userValidateRequests))
                 = userValidateRequests
          /\ RequestCall =>
                 \E address \in Requesters :
                     userValidateRequests'[Len(userValidateRequests')]
                         = <<address, clock \div 1000, "starRegistry">>]_vars
    /\ [](\A c \in AcceptedSubmissions, star \in Stars :
              LET address == calls[c].address
                  message == calls[c].message
                  again == SubmitDecision(
                               SubmitLocals(address, message,
                                            Sign(address, message), star))
              IN  /\ Occurs(message, userValidateRequests)
                  /\ Elapsed(message) <= 300 =>
                         (again.pc = "append" /\ again.outcome = ""))

\* C18 happens: two submissions of the same challenge were accepted, and
\* the blocks of both are in the chain
ChallengesOnlyGrowWitness ==
    \E c, d \in AcceptedSubmissions :
        /\ c < d
        /\ calls[c].message = calls[d].message
        /\ calls[c].index < calls[d].index
        /\ Occurs(calls[c].message, userValidateRequests)

(* ------------------- claims about validateChain's checks --------------- *)

\* validateChain() was called after changePreviousHash(h), the one tamper
\* call made, which found a block h other than the first, and has returned
ValidatedAfterChangePreviousHash(h) ==
    /\ validation.pc = "done"
    /\ validation.tampersSeen = 1
    /\ Len(tamperLog) = 1
    /\ tamperLog[1][1] = "changePreviousHash"
    /\ tamperLog[1][2] = h
    /\ tamperLog[1][3] = "chain"

\* the faults of the list are in ascending order of the height they name
AscendingFaults(errorLog) ==
    \A i, j \in DOMAIN errorLog : i < j => errorLog[i][2] <= errorLog[j][2]

\* C19: after changePreviousHash(h) for a block h above 0 of a chain not
\* tampered with otherwise, validateChain() reports both the hash fault and
\* the link fault of height h, and the faults are in ascending order of
\* height.
BothChecksReported ==
    \A h \in 1 .. Len(chain) - 1 :
        ValidatedAfterChangePreviousHash(h) =>
            /\ Occurs(HashFault(h), validation.errorLog)
            /\ Occurs(LinkFault(h), validation.errorLog)
            /\ AscendingFaults(validation.errorLog)

(* ------------------------ claims about the owner ----------------------- *)

\* the address a challenge was issued for: the first field of the message
ChallengedAddress(message) == message[1]

\* C20: the block of every accepted submission has as owner the address
\* the challenge submitted was issued for.
OwnerIsChallengedAddress ==
    \A c \in AcceptedSubmissions :
        /\ Occurs(calls[c].message, userValidateRequests)
        /\ getBData(At(calls[c].index)).owner
               = ChallengedAddress(calls[c].message)

=============================================================================
